---- MODULE Spec2Model ----
(***************************************************************************)
(* A model of create-makefile-callgraph/scripts/parse_makefile.py:         *)
(* acquisition of the make database (parse_makefile_with_make), the line   *)
(* parser (parse_make_database), the graph construction of main, and the   *)
(* depth-first cycle detector (find_cycles).                               *)
(*                                                                         *)
(* A Python str is a sequence of one-character strings; a Python dict is a *)
(* sequence of [k, v] records in insertion order; a list is a sequence; a  *)
(* set is a set.                                                           *)
(***************************************************************************)
EXTENDS Integers, Sequences, FiniteSets, TLC

VARIABLES
    pc,                  \* position in main
    make_stdout,         \* what the make process would print
    outcome,             \* how subprocess.run ended
    error,               \* the fatal diagnostic, "" when none
    lines, i,            \* parse_make_database: the split text and the cursor
    in_database_section,
    current_target, current_recipe,
    targets, make_calls, phony_targets,
    graph,               \* the combined graph handed to find_cycles
    cycles, visited, rec_stack,
    frames,              \* active dfs() invocations: [node, path, k]
    it,                  \* position of find_cycles' outer loop in graph
    push_log             \* history: every node appended to rec_stack, in order

vars == <<pc, make_stdout, outcome, error, lines, i, in_database_section,
          current_target, current_recipe, targets, make_calls, phony_targets,
          graph, cycles, visited, rec_stack, frames, it, push_log>>

parseVars == <<lines, i, in_database_section, current_target, current_recipe,
               targets, make_calls, phony_targets>>

cycleVars == <<cycles, visited, rec_stack, frames, it, push_log>>

----------------------------------------------------------------------------
(* Characters and the str methods the parser uses.                         *)

Whitespace == {" ", "\t", "\n", "\r", "\f"}

Upper == {"A","B","C","D","E","F","G","H","I","J","K","L","M",
          "N","O","P","Q","R","S","T","U","V","W","X","Y","Z"}

Lower == {"a","b","c","d","e","f","g","h","i","j","k","l","m",
          "n","o","p","q","r","s","t","u","v","w","x","y","z"}

Digit == {"0","1","2","3","4","5","6","7","8","9"}

\* the class [a-zA-Z0-9_/-] of the sub-target group
NameChar == Upper \cup Lower \cup Digit \cup {"_", "/", "-"}

None == <<"None">>

Min(S) == CHOOSE x \in S : \A y \in S : x <= y

Range(s) == {s[n] : n \in DOMAIN s}

\* s[n:] with n a 1-based position
From(s, n) == SubSeq(s, n, Len(s))

\* s.startswith(p)
StartsWith(s, p) == Len(s) >= Len(p) /\ SubSeq(s, 1, Len(p)) = p

\* the 1-based position of the leftmost occurrence of p in s at or after n, 0 when none
FindFrom(s, p, n) ==
    LET hits == {m \in n..(Len(s) - Len(p) + 1) : SubSeq(s, m, m + Len(p) - 1) = p}
    IN  IF hits = {} THEN 0 ELSE Min(hits)

\* p in s
Contains(s, p) == FindFrom(s, p, 1) # 0

\* the length of the longest prefix of s whose characters are all in cls
RunLen(s, cls) ==
    LET stops == {m \in 1..Len(s) : s[m] \notin cls}
    IN  IF stops = {} THEN Len(s) ELSE Min(stops) - 1

\* the length of the longest prefix of s with no character in cls
RunLenNot(s, cls) ==
    LET stops == {m \in 1..Len(s) : s[m] \in cls}
    IN  IF stops = {} THEN Len(s) ELSE Min(stops) - 1

LStrip(s) == From(s, RunLen(s, Whitespace) + 1)

\* s.strip()
Strip(s) ==
    LET t == LStrip(s)
        keep == {m \in 1..Len(t) : t[m] \notin Whitespace}
    IN  IF keep = {} THEN <<>> ELSE SubSeq(t, 1, CHOOSE m \in keep : \A q \in keep : q <= m)

\* s.split(): the maximal runs of non-whitespace, in order
RECURSIVE SplitWs(_)
SplitWs(s) ==
    LET t == LStrip(s)
        n == RunLenNot(t, Whitespace)
    IN  IF t = <<>> THEN <<>> ELSE <<SubSeq(t, 1, n)>> \o SplitWs(From(t, n + 1))

\* s.split('\n'): never empty, '' splits to ['']
RECURSIVE SplitLines(_)
SplitLines(s) ==
    LET p == FindFrom(s, <<"\n">>, 1)
    IN  IF p = 0 THEN <<s>> ELSE <<SubSeq(s, 1, p - 1)>> \o SplitLines(From(s, p + 1))

\* s.isupper(): some cased character, and no lowercase one
IsUpper(s) == Range(s) \cap Upper # {} /\ Range(s) \cap Lower = {}

\* mutant: the duplicates stay
DedupeNone(s) == s

\* list(dict.fromkeys(s)): first occurrences, in order
RECURSIVE Dedupe(_)
Dedupe(s) ==
    IF s = <<>> THEN <<>>
    ELSE LET front == Dedupe(SubSeq(s, 1, Len(s) - 1))
         IN  IF s[Len(s)] \in Range(front) THEN front ELSE Append(front, s[Len(s)])

----------------------------------------------------------------------------
(* Python dicts in insertion order.                                        *)

DictKeys(d) == {d[n].k : n \in DOMAIN d}

DictGet(d, key) == d[CHOOSE n \in DOMAIN d : d[n].k = key].v

\* d[key] = val, the key keeping its place when present
DictSet(d, key, val) ==
    IF key \in DictKeys(d)
    THEN [n \in DOMAIN d |-> IF d[n].k = key THEN [k |-> key, v |-> val] ELSE d[n]]
    ELSE Append(d, [k |-> key, v |-> val])

\* d[key].extend(items), d[key] starting as [] when absent
DictExtend(d, key, items) ==
    DictSet(d, key, (IF key \in DictKeys(d) THEN DictGet(d, key) ELSE <<>>) \o items)

----------------------------------------------------------------------------
(* parse_make_database: the tables and the patterns.                       *)

SKIP_TARGETS ==
    {<<".","D","E","F","A","U","L","T">>,
     <<".","S","U","F","F","I","X","E","S">>,
     <<".","I","N","T","E","R","M","E","D","I","A","T","E">>,
     <<".","S","E","C","O","N","D","A","R","Y">>,
     <<".","P","R","E","C","I","O","U","S">>,
     <<".","I","G","N","O","R","E">>,
     <<".","S","I","L","E","N","T">>,
     <<".","E","X","P","O","R","T","_","A","L","L","_","V","A","R","I","A","B","L","E","S">>,
     <<".","N","O","T","P","A","R","A","L","L","E","L">>,
     <<".","O","N","E","S","H","E","L","L">>,
     <<".","P","O","S","I","X">>,
     <<"M","a","k","e","f","i","l","e">>,
     <<"G","N","U","m","a","k","e","f","i","l","e">>,
     <<"m","a","k","e","f","i","l","e">>}

SKIP_VARS ==
    {<<"M","A","K","E","F","I","L","E","S">>,
     <<"M","A","K","E","F","I","L","E","_","L","I","S","T">>,
     <<"C","U","R","D","I","R">>,
     <<"S","H","E","L","L">>,
     <<"M","A","K","E">>,
     <<"M","A","K","E","L","E","V","E","L">>,
     <<"M","A","K","E","F","L","A","G","S">>,
     <<"M","F","L","A","G","S">>,
     <<"M","A","K","E","_","V","E","R","S","I","O","N">>,
     <<"M","A","K","E","_","C","O","M","M","A","N","D">>,
     <<".","D","E","F","A","U","L","T","_","G","O","A","L">>,
     <<".","V","A","R","I","A","B","L","E","S">>,
     <<".","F","E","A","T","U","R","E","S">>,
     <<"V","P","A","T","H">>,
     <<".","I","N","C","L","U","D","E","_","D","I","R","S">>,
     <<".","R","E","C","I","P","E","P","R","E","F","I","X">>,
     <<"M","A","K","E","C","M","D","G","O","A","L","S">>}

S_FILES == <<"#"," ","F","i","l","e","s">>

S_PHONY == <<".","P","H","O","N","Y">>

S_PHONY_COLON == <<".","P","H","O","N","Y",":">>

S_MAKE == <<"M","A","K","E">>

S_DASH_C == <<"-","C">>

S_SRC == <<"s","r","c">>

\* '.PHONY:' in line or line.startswith('.PHONY')
IsPhonyLine(line) == Contains(line, S_PHONY_COLON) \/ StartsWith(line, S_PHONY)

\* re.search(r'\.PHONY:\s*(.+)', line), then group(1).strip().split().
\* The group needs one character at least: when only whitespace follows the
\* colon, \s* gives the last character back to (.+).
PhonyList(line) ==
    LET p == FindFrom(line, S_PHONY_COLON, 1)
        rest == From(line, p + Len(S_PHONY_COLON))
        lead == LStrip(rest)
        group1 == IF lead = <<>> THEN <<rest[Len(rest)]>> ELSE lead
    IN  IF p = 0 \/ rest = <<>> THEN {} ELSE Range(SplitWs(Strip(group1)))

\* re.match(r'^([^#:\s][^:]*?):\s*(.*)$', line) succeeds
TargetMatch(line) ==
    /\ line # <<>>
    /\ line[1] \notin ({"#", ":"} \cup Whitespace)
    /\ Contains(line, <<":">>)

\* group(1): the lazy [^:]*? stops at the first colon
Group1(line) == SubSeq(line, 1, FindFrom(line, <<":">>, 1) - 1)

\* group(2): \s* takes the whitespace after the colon, (.*) the rest
Group2(line) == LStrip(From(line, FindFrom(line, <<":">>, 1) + 1))

TargetName(line) == Strip(Group1(line))

\* mutant: the comparison of the two positions is reversed
IsAssignmentReversed(line) ==
    /\ \E n \in DOMAIN line : line[n] = "="
    /\ \E n \in DOMAIN line : line[n] = ":"
    /\ Min({n \in DOMAIN line : line[n] = "="}) > Min({n \in DOMAIN line : line[n] = ":"})

\* '=' in line and ':' in line and line.index('=') < line.index(':')
IsAssignment(line) ==
    /\ Contains(line, <<"=">>)
    /\ Contains(line, <<":">>)
    /\ FindFrom(line, <<"=">>, 1) < FindFrom(line, <<":">>, 1)

\* the name filters, in the order of the code
IsSkippedName(target) ==
    \/ target \in SKIP_TARGETS
    \/ target \in SKIP_VARS
    \/ IsUpper(target) /\ " " \notin Range(target)
    \/ StartsWith(target, <<"/">>)
    \/ "%" \in Range(target)
    \/ StartsWith(target, <<".">>) /\ target # S_PHONY

\* re.sub(r'#.*$', '', s)
StripComment(s) ==
    LET p == FindFrom(s, <<"#">>, 1)
    IN  IF p = 0 THEN s ELSE SubSeq(s, 1, p - 1)

\* the dependency names of an accepted target line
DepsOf(line) ==
    LET deps_str == Strip(Group2(line))
    IN  IF deps_str = <<>> THEN <<>> ELSE SplitWs(Strip(StripComment(deps_str)))

\* the look-ahead loop: where j stops
RECURSIVE RecipeEnd(_, _)
RecipeEnd(ls, j) ==
    IF j > Len(ls) THEN j
    ELSE IF StartsWith(ls[j], <<"#">>) \/ Strip(ls[j]) = <<>> THEN RecipeEnd(ls, j + 1)
    ELSE j

\* the look-ahead loop: what current_recipe collects
RECURSIVE CollectRecipe(_, _)
CollectRecipe(ls, j) ==
    IF j > Len(ls) THEN <<>>
    ELSE IF StartsWith(ls[j], <<"#">>)
         THEN <<Strip(From(ls[j], 2))>> \o CollectRecipe(ls, j + 1)
    ELSE IF Strip(ls[j]) = <<>> THEN CollectRecipe(ls, j + 1)
    ELSE <<>>

\* \s+([a-zA-Z0-9_/-]+) at the start of s: the sub-target, <<>> when no match.
\* Both quantifiers are greedy and giving a character back never helps.
TailMatch(s) ==
    LET w == RunLen(s, Whitespace)
        t == From(s, w + 1)
        n == RunLen(t, NameChar)
    IN  IF w >= 1 /\ n >= 1 THEN SubSeq(t, 1, n) ELSE <<>>

\* re.search found nothing; a group that did not take part is <<>> as well
NoMatch == [subdir |-> <<>>, subtarget |-> <<>>]

\* mutant: the pattern has no directory group
DirMatchMissing(s) == NoMatch

\* (?:\s+-C\s+([^\s]+)) at the start of s, followed by the tail
DirMatch(s) ==
    LET w1 == RunLen(s, Whitespace)
        s1 == From(s, w1 + 1)
        s2 == From(s1, Len(S_DASH_C) + 1)
        w2 == RunLen(s2, Whitespace)
        s3 == From(s2, w2 + 1)
        d  == RunLenNot(s3, Whitespace)
        sub == TailMatch(From(s3, d + 1))
    IN  IF w1 >= 1 /\ StartsWith(s1, S_DASH_C) /\ w2 >= 1 /\ d >= 1 /\ sub # <<>>
        THEN [subdir |-> SubSeq(s3, 1, d), subtarget |-> sub]
        ELSE NoMatch

\* \$[\({]MAKE[\)}] at position p of s
ToolAt(s, p) ==
    /\ p + 6 <= Len(s)
    /\ s[p] = "$"
    /\ s[p + 1] \in {"(", "{"}
    /\ SubSeq(s, p + 2, p + 5) = S_MAKE
    /\ s[p + 6] \in {")", "}"}

\* the whole pattern anchored at position p: the optional group is tried
\* first, then skipped
MakeMatchAt(s, p) ==
    IF ~ToolAt(s, p) THEN NoMatch
    ELSE LET rest == From(s, p + 7)
         IN  IF DirMatch(rest) # NoMatch THEN DirMatch(rest)
             ELSE [subdir |-> <<>>, subtarget |-> TailMatch(rest)]

\* re.search: the leftmost position where the pattern matches
MakeSearch(s) ==
    LET hits == {p \in 1..Len(s) : MakeMatchAt(s, p) # NoMatch}
    IN  IF hits = {} THEN NoMatch ELSE MakeMatchAt(s, Min(hits))

\* the destinations appended to make_calls[current_target] for a recipe
RECURSIVE MakeCallsOf(_)
MakeCallsOf(recipe) ==
    IF recipe = <<>> THEN <<>>
    ELSE LET make_match == MakeSearch(Head(recipe))
             call == IF make_match.subdir # <<>>
                     THEN make_match.subdir \o <<"/">> \o make_match.subtarget
                     ELSE make_match.subtarget
         IN  (IF make_match = NoMatch THEN <<>> ELSE <<call>>) \o MakeCallsOf(Tail(recipe))

\* which branch of the loop body a line takes
LineKind(line, in_section) ==
    IF StartsWith(line, S_FILES) THEN "marker"
    ELSE IF ~in_section THEN "preamble"
    ELSE IF StartsWith(line, <<"#">>) \/ Strip(line) = <<>> THEN "comment"
    ELSE IF IsPhonyLine(line) THEN "phony"
    ELSE IF ~TargetMatch(line) THEN "other"
    ELSE IF IsAssignment(line) THEN "assignment"
    ELSE IF IsSkippedName(TargetName(line)) THEN "internal"
    ELSE "target"

----------------------------------------------------------------------------
(* The inputs: the text the make process prints, and the graphs handed to  *)
(* find_cycles.                                                            *)

MaxBody == 2

MaxEdges == 4

ExampleText ==
    <<"a","l","l",":"," ","b","u","i","l","d"," ","t","e","s","t","\n","b",
      "u","i","l","d",":","\n","\t","t","o","u","c","h"," ","b","u","i","l",
      "d","\n","t","e","s","t",":"," ","b","u","i","l","d","\n","\t","e",
      "c","h","o"," ","o","k","\n",".","P","H","O","N","Y",":"," ","a","l",
      "l"," ","t","e","s","t">>

L_ab_c == <<"a",":"," ","b"," ","c">>

L_a_csb == <<"a",":"," ","c"," ","s","r","c"," ","b"," ","#"," ","e">>

L_b_a == <<"b",":"," ","a">>

L_c == <<"c",":">>

L_assign == <<"x","=","1",":"," ","y">>

L_upper == <<"C","C",":"," ","a">>

L_var == <<"M","A","K","E",":"," ","a">>

L_internal == <<"M","a","k","e","f","i","l","e",":"," ","a">>

L_abs == <<"/","x",":"," ","a">>

L_pattern == <<"%",".","o",":"," ","a">>

L_dot == <<".","x",":"," ","a">>

L_phony == <<".","P","H","O","N","Y",":"," ","a"," ","b">>

L_tab == <<"\t","e","c","h","o"," ","a",":"," ","b">>

L_blank == <<>>

S_TOOL_PAREN == <<"$","(","M","A","K","E",")">>

S_TOOL_BRACE == <<"$","{","M","A","K","E","}">>

\* a recipe line as make -pn echoes it: a comment holding the words
RecipeLine(indent, words) ==
    LET RECURSIVE Join(_)
        Join(ws) == IF Len(ws) = 1 THEN ws[1] ELSE ws[1] \o <<" ">> \o Join(Tail(ws))
    IN  <<"#">> \o indent \o Join(words)

R_dir == RecipeLine(<<"\t">>, <<S_TOOL_PAREN, S_DASH_C, <<"s","u","b">>, <<"b">>>>)

R_bare == RecipeLine(<<" ">>, <<S_TOOL_BRACE, <<"a">>>>)

R_two == RecipeLine(<<"\t">>, <<S_TOOL_PAREN, S_DASH_C, <<"s","1">>, <<"x">>, <<"&","&">>,
                                S_TOOL_PAREN, <<"y">>>>)

\* -C with a directory and no sub-target: the pattern takes -C for the name
R_nodest == RecipeLine(<<"\t">>, <<S_TOOL_PAREN, S_DASH_C, <<"s","u","b">>>>)

\* a rule whose '=' comes after the colon
L_eq_dep == <<"d",":"," ","e","=","f">>

Catalog == {L_ab_c, L_a_csb, L_b_a, L_c, L_assign, L_eq_dep, L_upper, L_var, L_internal,
            L_abs, L_pattern, L_dot, L_phony, L_tab, L_blank, R_dir, R_bare, R_two,
            R_nodest}

SeqsUpTo(S, n) == UNION {[1..m -> S] : m \in 0..n}

\* '\n'.join(ls)
RECURSIVE JoinLines(_)
JoinLines(ls) ==
    IF ls = <<>> THEN <<>>
    ELSE IF Len(ls) = 1 THEN ls[1]
    ELSE ls[1] \o <<"\n">> \o JoinLines(Tail(ls))

\* text before the database section, or the section marker first
Preambles == {<<>>, <<S_FILES>>}

Texts == {JoinLines(pre \o body) : pre \in Preambles, body \in SeqsUpTo(Catalog, MaxBody)}
             \cup {ExampleText}

Nodes == {<<"a">>, <<"b">>, <<"c">>}

\* the orders in which a dict can hold distinct keys
KeyOrders == {ks \in SeqsUpTo(Nodes, Cardinality(Nodes)) :
                 \A m, n \in DOMAIN ks : m # n => ks[m] # ks[n]}

\* the adjacency list of the n-th key of ks, with budget edges left to spend
ListsFor(ks, n, budget) == IF n <= Len(ks) THEN SeqsUpTo(Nodes, budget) ELSE {<<>>}

\* the dict holding the keys ks in this order, ls[n] the list of ks[n]
MakeGraph(ks, ls) == [n \in 1..Len(ks) |-> [k |-> ks[n], v |-> ls[n]]]

----------------------------------------------------------------------------
(* main, up to the call of find_cycles.                                    *)

Init ==
    /\ pc = "acquire"
    /\ make_stdout \in Texts
    /\ outcome = "pending"
    /\ error = ""
    /\ lines = <<>>
    /\ i = 1
    /\ in_database_section = FALSE
    /\ current_target = None
    /\ current_recipe = <<>>
    /\ targets = <<>>
    /\ make_calls = <<>>
    /\ phony_targets = {}
    /\ graph = <<>>
    /\ cycles = <<>>
    /\ visited = {}
    /\ rec_stack = <<>>
    /\ frames = <<>>
    /\ it = 1
    /\ push_log = <<>>

\* the diagnostics of the three handlers
E_TIMEOUT == "Error: make -pn timed out after 30 seconds"

E_FAILED == "Error running make -pn"

E_NOTFOUND == "Error: 'make' command not found. Please ensure GNU Make is installed."

\* how subprocess.run(cmd, cwd=..., capture_output=True, text=True, timeout=30)
\* can end: check=True is not passed, so a non-zero exit status returns like a
\* zero one and CalledProcessError is never raised
Outcomes == {"ok", "nonzero", "timeout", "notfound"}

\* parse_makefile_with_make up to the first iteration of the parser's loop
Acquire ==
    /\ pc = "acquire"
    /\ \E o \in Outcomes :
        /\ outcome' = o
        /\ IF o = "timeout"
           THEN /\ error' = E_TIMEOUT
                /\ pc' = "exit1"
                /\ UNCHANGED lines
           ELSE IF o = "notfound"
           THEN /\ error' = E_NOTFOUND
                /\ pc' = "exit1"
                /\ UNCHANGED lines
           ELSE /\ error' = ""
                /\ pc' = "parse"
                /\ lines' = SplitLines(make_stdout)
    /\ UNCHANGED <<make_stdout, i, in_database_section, current_target, current_recipe,
                   targets, make_calls, phony_targets, graph, cycleVars>>

\* the loop body for a line that only moves the cursor
ParseSkip ==
    /\ pc = "parse" /\ i <= Len(lines)
    /\ LineKind(lines[i], in_database_section)
           \in {"comment", "other", "assignment", "internal"}
    /\ i' = i + 1
    /\ UNCHANGED <<pc, make_stdout, outcome, error, lines, in_database_section,
                   current_target, current_recipe, targets, make_calls, phony_targets,
                   graph, cycleVars>>

\* the loop body for the '# Files' line
ParseMarker ==
    /\ pc = "parse" /\ i <= Len(lines)
    /\ LineKind(lines[i], in_database_section) = "marker"
    /\ in_database_section' = TRUE
    /\ i' = i + 1
    /\ UNCHANGED <<pc, make_stdout, outcome, error, lines,
                   current_target, current_recipe, targets, make_calls, phony_targets,
                   graph, cycleVars>>

\* the loop body before the section, and for a .PHONY line inside it
ParsePhony ==
    /\ pc = "parse" /\ i <= Len(lines)
    /\ LineKind(lines[i], in_database_section) \in {"preamble", "phony"}
    /\ phony_targets' = phony_targets \cup
           (IF IsPhonyLine(lines[i]) THEN PhonyList(lines[i]) ELSE {})
    /\ i' = i + 1
    /\ UNCHANGED <<pc, make_stdout, outcome, error, lines, in_database_section,
                   current_target, current_recipe, targets, make_calls,
                   graph, cycleVars>>

\* the loop body for an accepted target line, look-ahead included
ParseTarget ==
    /\ pc = "parse" /\ i <= Len(lines)
    /\ LineKind(lines[i], in_database_section) = "target"
    /\ LET target == TargetName(lines[i])
           recipe == CollectRecipe(lines, i + 1)
           calls  == MakeCallsOf(recipe)
       IN  /\ targets' = DictExtend(targets, target, DepsOf(lines[i]))
           /\ current_target' = target
           /\ current_recipe' = recipe
           /\ make_calls' = IF calls = <<>> THEN make_calls
                            ELSE DictExtend(make_calls, target, calls)
           /\ i' = RecipeEnd(lines, i + 1)
    /\ UNCHANGED <<pc, make_stdout, outcome, error, lines, in_database_section,
                   phony_targets, graph, cycleVars>>

\* every value of a dict of lists through list(dict.fromkeys(...))
DedupeAll(d) == [n \in DOMAIN d |-> [k |-> d[n].k, v |-> Dedupe(d[n].v)]]

\* the loop ends: duplicates are removed and the three structures returned
ParseReturn ==
    /\ pc = "parse" /\ i > Len(lines)
    /\ targets' = DedupeAll(targets)
    /\ pc' = "parsed"
    /\ UNCHANGED <<make_stdout, outcome, error, lines, i, in_database_section,
                   current_target, current_recipe, make_calls, phony_targets,
                   graph, cycleVars>>

\* {k: v for k, v in d.items() if k in keep}
DictFilterKeys(d, keep) == SelectSeq(d, LAMBDA e : e.k \in keep)

\* main's --phony-only filter of targets
PhonyOnly(d, phony) ==
    LET kept == DictFilterKeys(d, phony)
    IN  [n \in DOMAIN kept |->
            [k |-> kept[n].k, v |-> SelectSeq(kept[n].v, LAMBDA x : x \in phony)]]

\* main's --no-src filter: re.match(r'src.*$', d) drops the names starting with src
NoSrc(d) ==
    [n \in DOMAIN d |->
        [k |-> d[n].k, v |-> SelectSeq(d[n].v, LAMBDA x : ~StartsWith(x, S_SRC))]]

\* the combined graph: the dependencies, then the calls appended per target
RECURSIVE MergeCalls(_, _)
MergeCalls(g, calls) ==
    IF calls = <<>> THEN g
    ELSE MergeCalls(DictExtend(g, Head(calls).k, Head(calls).v), Tail(calls))

\* main from the return of parse_makefile to the call of find_cycles
BuildGraph ==
    /\ pc = "parsed"
    /\ \E phony_only, no_src \in BOOLEAN :
        LET t1 == IF phony_only THEN PhonyOnly(targets, phony_targets) ELSE targets
            c1 == IF phony_only THEN DictFilterKeys(make_calls, phony_targets)
                  ELSE make_calls
            t2 == IF no_src THEN NoSrc(t1) ELSE t1
        IN  /\ targets' = t2
            /\ make_calls' = c1
            /\ graph' = MergeCalls(t2, c1)
    /\ pc' = "cycles"
    /\ cycles' = <<>>
    /\ visited' = {}
    /\ rec_stack' = <<>>
    /\ frames' = <<>>
    /\ it' = 1
    /\ push_log' = <<>>
    /\ UNCHANGED <<make_stdout, outcome, error, lines, i, in_database_section,
                   current_target, current_recipe, phony_targets>>

----------------------------------------------------------------------------
(* find_cycles.  A frame is one active call of dfs: its node, its path     *)
(* argument and k, the position of its for loop in graph[node].            *)

\* mutant: the closing node is not appended
CycleOfOpen(stack, node) ==
    LET cycle_start == Min({n \in DOMAIN stack : stack[n] = node})
    IN  SubSeq(stack, cycle_start, Len(stack))

\* mutant: the stack is not sliced at the closing node
CycleOfWholeStack(stack, node) == stack \o <<node>>

\* rec_stack[cycle_start:] + [node], cycle_start = rec_stack.index(node)
CycleOf(stack, node) ==
    LET cycle_start == Min({n \in DOMAIN stack : stack[n] = node})
    IN  SubSeq(stack, cycle_start, Len(stack)) \o <<node>>

\* mutant: the node stays on the stack when its call returns
PopKept(stack) == stack

\* rec_stack.pop()
Pop(stack) == SubSeq(stack, 1, Len(stack) - 1)

\* graph[node] for the loop of dfs: nothing to walk when node is no key
Edges(node) == IF node \in DictKeys(graph) THEN DictGet(graph, node) ELSE <<>>

\* mutant: the visited test comes before the stack test
DfsEnterVisitedFirst(node, path, fr) ==
    IF node \in visited
    THEN /\ frames' = fr
         /\ UNCHANGED <<cycles, visited, rec_stack, push_log>>
    ELSE IF node \in Range(rec_stack)
    THEN /\ cycles' = Append(cycles, CycleOf(rec_stack, node))
         /\ frames' = fr
         /\ UNCHANGED <<visited, rec_stack, push_log>>
    ELSE /\ visited' = visited \cup {node}
         /\ rec_stack' = Append(rec_stack, node)
         /\ push_log' = Append(push_log, node)
         /\ frames' = Append(fr, [node |-> node, path |-> path, k |-> 1])
         /\ UNCHANGED cycles

\* mutant: the visited test is missing
DfsEnterNoVisited(node, path, fr) ==
    IF node \in Range(rec_stack)
    THEN /\ cycles' = Append(cycles, CycleOf(rec_stack, node))
         /\ frames' = fr
         /\ UNCHANGED <<visited, rec_stack, push_log>>
    ELSE /\ visited' = visited \cup {node}
         /\ rec_stack' = Append(rec_stack, node)
         /\ push_log' = Append(push_log, node)
         /\ frames' = Append(fr, [node |-> node, path |-> path, k |-> 1])
         /\ UNCHANGED cycles

\* a call dfs(node, path) made with the callers' frames fr: up to its return,
\* or up to the start of its for loop
DfsEnter(node, path, fr) ==
    IF node \in Range(rec_stack)
    THEN /\ cycles' = Append(cycles, CycleOf(rec_stack, node))
         /\ frames' = fr
         /\ UNCHANGED <<visited, rec_stack, push_log>>
    ELSE IF node \in visited
    THEN /\ frames' = fr
         /\ UNCHANGED <<cycles, visited, rec_stack, push_log>>
    ELSE /\ visited' = visited \cup {node}
         /\ rec_stack' = Append(rec_stack, node)
         /\ push_log' = Append(push_log, node)
         /\ frames' = Append(fr, [node |-> node, path |-> path, k |-> 1])
         /\ UNCHANGED cycles

\* one iteration of 'for node in graph', no dfs call being active
StartWalk ==
    /\ pc = "cycles" /\ frames = <<>> /\ it <= Len(graph)
    /\ it' = it + 1
    /\ IF graph[it].k \notin visited
       THEN DfsEnter(graph[it].k, <<graph[it].k>>, frames)
       ELSE UNCHANGED <<cycles, visited, rec_stack, frames, push_log>>
    /\ UNCHANGED <<pc, make_stdout, outcome, error, parseVars, graph>>

\* one iteration of 'for dep in graph[node]' in the innermost active call
DfsEdge ==
    /\ pc = "cycles" /\ frames # <<>>
    /\ LET top == frames[Len(frames)]
       IN  /\ top.k <= Len(Edges(top.node))
           /\ DfsEnter(Edges(top.node)[top.k],
                       Append(top.path, Edges(top.node)[top.k]),
                       [frames EXCEPT ![Len(frames)].k = top.k + 1])
    /\ UNCHANGED <<pc, make_stdout, outcome, error, parseVars, graph, it>>

\* the innermost active call has walked its edges: it pops rec_stack and returns
DfsReturn ==
    /\ pc = "cycles" /\ frames # <<>>
    /\ frames[Len(frames)].k > Len(Edges(frames[Len(frames)].node))
    /\ rec_stack' = Pop(rec_stack)
    /\ frames' = SubSeq(frames, 1, Len(frames) - 1)
    /\ UNCHANGED <<pc, make_stdout, outcome, error, parseVars, graph,
                   cycles, visited, it, push_log>>

\* 'for node in graph' is exhausted: find_cycles returns cycles
FinishCycles ==
    /\ pc = "cycles" /\ frames = <<>> /\ it > Len(graph)
    /\ pc' = "done"
    /\ UNCHANGED <<make_stdout, outcome, error, parseVars, graph, cycleVars>>

----------------------------------------------------------------------------
(* The specifications.                                                     *)

NextCycles == StartWalk \/ DfsEdge \/ DfsReturn \/ FinishCycles

Next ==
    \/ Acquire
    \/ ParseSkip \/ ParseMarker \/ ParsePhony \/ ParseTarget \/ ParseReturn
    \/ BuildGraph
    \/ NextCycles

\* a run of main on the text the make process prints
Spec == Init /\ [][Next]_vars

\* find_cycles called on a graph: every order of at most three keys, every
\* choice of adjacency lists over the nodes with at most MaxEdges edges in all
\* (a node that is no key is a dangling destination)
InitCycles ==
    /\ pc = "cycles"
    /\ \E ks \in KeyOrders :
         \E l1 \in ListsFor(ks, 1, MaxEdges) :
           \E l2 \in ListsFor(ks, 2, MaxEdges - Len(l1)) :
             \E l3 \in ListsFor(ks, 3, MaxEdges - Len(l1) - Len(l2)) :
               graph = MakeGraph(ks, <<l1, l2, l3>>)
    /\ make_stdout = <<>>
    /\ outcome = "ok"
    /\ error = ""
    /\ lines = <<>>
    /\ i = 1
    /\ in_database_section = FALSE
    /\ current_target = None
    /\ current_recipe = <<>>
    /\ targets = <<>>
    /\ make_calls = <<>>
    /\ phony_targets = {}
    /\ cycles = <<>>
    /\ visited = {}
    /\ rec_stack = <<>>
    /\ frames = <<>>
    /\ it = 1
    /\ push_log = <<>>

SpecCycles == InitCycles /\ [][NextCycles]_vars

\* the interpreter runs find_cycles to its end: single-threaded, nothing to wait for
FairCycles == SpecCycles /\ WF_vars(NextCycles)

----------------------------------------------------------------------------
(* The cycle detector's properties.                                        *)

\* the edges of graph, as pairs
EdgeSet == UNION {{<<graph[n].k, y>> : y \in Range(graph[n].v)} : n \in DOMAIN graph}

GraphNodes == {e[1] : e \in EdgeSet} \cup {e[2] : e \in EdgeSet} \cup DictKeys(graph)

\* no back-edge: the nodes can be ranked so that every edge goes up
IsDAG ==
    LET E == EdgeSet
        N == GraphNodes
    IN  \E rank \in [N -> 1..Cardinality(N)] : \A e \in E : rank[e[1]] < rank[e[2]]

NoDuplicates(q) == \A m, n \in DOMAIN q : m # n => q[m] # q[n]

Last(q) == q[Len(q)]

\* C1: on a graph with no back-edge (no node reaches itself), dangling
\* destinations included, find_cycles records no cycle, so it returns []
\* (stated as: whenever a cycle is recorded, the graph is no DAG).
C1_DagHasNoCycles == cycles # <<>> => ~IsDAG

\* a returned walk of an acyclic graph with a dangling destination and a node
\* reached along two edges
C1_Witness ==
    /\ pc = "done" /\ IsDAG
    /\ \E e \in EdgeSet : e[2] \notin DictKeys(graph)
    /\ \E e, f \in EdgeSet : e # f /\ e[2] = f[2]
    /\ Len(push_log) = 3

\* C2: when find_cycles returns, every node A with an edge to itself is
\* reported as the cycle A -> A: one edge, and A the only name in it.
C2_SelfEdgeReported ==
    pc = "done" =>
        \A n \in DOMAIN graph :
            graph[n].k \in Range(graph[n].v) =>
                \E c \in DOMAIN cycles :
                    /\ cycles[c] = <<graph[n].k, graph[n].k>>
                    /\ Range(cycles[c]) = {graph[n].k}
                    /\ Len(cycles[c]) - 1 = 1

\* a self-edge on a node the walk reaches from another one, next to a longer cycle
C2_Witness ==
    /\ pc = "done"
    /\ \E n \in DOMAIN graph :
        /\ n > 1
        /\ graph[n].k \in Range(graph[n].v)
        /\ <<graph[1].k, graph[n].k>> \in EdgeSet
        /\ <<graph[n].k, graph[n].k>> \in Range(cycles)
    /\ \E c \in Range(cycles) : Len(c) > 2

\* x -> y -> z -> x are edges of graph
HasTriangle(x, y, z) ==
    /\ Cardinality({x, y, z}) = 3
    /\ {<<x, y>>, <<y, z>>, <<z, x>>} \subseteq EdgeSet

\* the only destination of x is y: no other outgoing edge
OnlyEdge(x, y) == x \in DictKeys(graph) /\ Range(DictGet(graph, x)) = {y}

\* some reported cycle starts and ends at one node and holds the three names
ReportsAll(x, y, z) ==
    \E c \in Range(cycles) : c[1] = Last(c) /\ {x, y, z} \subseteq Range(c)

IsClosedPath(c) ==
    /\ Len(c) >= 2
    /\ c[1] = Last(c)
    /\ \A n \in 1..(Len(c) - 1) : <<c[n], c[n + 1]>> \in EdgeSet

\* C9: every reported cycle is a closed path of the graph, and the step that
\* records one appends a sequence whose elements from the first through the
\* second-to-last are the recursion stack from the closing destination's
\* position to the top.
C9_CycleIsStackSlice ==
    /\ [](\A c \in Range(cycles) : IsClosedPath(c))
    /\ [][cycles' # cycles =>
            /\ cycles' = Append(cycles, Last(cycles'))
            /\ \E p \in DOMAIN rec_stack :
                /\ rec_stack[p] = Last(Last(cycles'))
                /\ SubSeq(Last(cycles'), 1, Len(Last(cycles')) - 1)
                       = SubSeq(rec_stack, p, Len(rec_stack))]_vars

\* a cycle just recorded that closes above the bottom of the stack
C9_Witness ==
    /\ cycles # <<>>
    /\ Len(rec_stack) = 3
    /\ Last(cycles) = <<rec_stack[2], rec_stack[3], rec_stack[2]>>

\* C10: find_cycles returns on every graph; no node is pushed twice in a run,
\* the stack never holds a node twice, the stack is empty at the return, and
\* no step changes the graph.
C10_Terminates ==
    /\ <>(pc = "done")
    /\ [](/\ NoDuplicates(push_log)
          /\ NoDuplicates(rec_stack)
          /\ (pc = "done" => rec_stack = <<>> /\ frames = <<>>))
    /\ [][graph' = graph]_vars

\* a returned walk of a graph with a self-loop, a duplicate edge and a longer cycle
C10_Witness ==
    /\ pc = "done"
    /\ Len(push_log) >= 2
    /\ \E n \in DOMAIN graph : ~NoDuplicates(graph[n].v)
    /\ \E n \in DOMAIN graph : graph[n].k \in Range(graph[n].v)
    /\ \E c \in Range(cycles) : Len(c) > 2

----------------------------------------------------------------------------
(* The acquisition's and the parser's properties.                          *)

\* C4: each of the three failures of the make process (not found, non-zero
\* exit, time-out) ends the run in its own fatal error, and then nothing is
\* parsed and no graph is built.
C4_FailuresAreFatal ==
    outcome \in {"notfound", "nonzero", "timeout"} =>
        /\ pc = "exit1"
        /\ error = (CASE outcome = "notfound" -> E_NOTFOUND
                      [] outcome = "nonzero" -> E_FAILED
                      [] outcome = "timeout" -> E_TIMEOUT)
        /\ Cardinality({E_NOTFOUND, E_FAILED, E_TIMEOUT}) = 3
        /\ lines = <<>> /\ targets = <<>> /\ graph = <<>>

W_all == <<"a","l","l">>

W_build == <<"b","u","i","l","d">>

W_test == <<"t","e","s","t">>

\* C6: on the example text, which has no '# Files' line, the parser returns
\* the targets all: [build, test], build: [], test: [build], the phony set
\* {all, test} and no recursive call, and find_cycles finds no cycle.
C6_ExampleParsed ==
    make_stdout = ExampleText /\ outcome = "ok" =>
        /\ pc = "parsed" =>
            /\ DictKeys(targets) = {W_all, W_build, W_test}
            /\ DictGet(targets, W_all) = <<W_build, W_test>>
            /\ DictGet(targets, W_build) = <<>>
            /\ DictGet(targets, W_test) = <<W_build>>
            /\ phony_targets = {W_all, W_test}
            /\ make_calls = <<>>
        /\ pc = "done" => cycles = <<>>

\* the '# Files' line comes before line k
SectionOpenAt(k) == \E m \in 1..(k - 1) : StartsWith(lines[m], S_FILES)

\* line k is an accepted rule line of the database section
AcceptedAt(k) == k \in DOMAIN lines /\ LineKind(lines[k], SectionOpenAt(k)) = "target"

AcceptedNames == {TargetName(lines[k]) : k \in {n \in DOMAIN lines : AcceptedAt(n)}}

\* the dependencies declared for key on the accepted lines 1..k, in input order
RECURSIVE DeclaredUpTo(_, _)
DeclaredUpTo(key, k) ==
    IF k = 0 THEN <<>>
    ELSE DeclaredUpTo(key, k - 1)
             \o (IF AcceptedAt(k) /\ TargetName(lines[k]) = key THEN DepsOf(lines[k])
                 ELSE <<>>)

FirstAt(q, x) == Min({n \in DOMAIN q : q[n] = x})

\* got holds the names of declared, each once, in the order of first appearance
IsFirstSeenUnion(got, declared) ==
    /\ Range(got) = Range(declared)
    /\ NoDuplicates(got)
    /\ \A a, b \in DOMAIN got : a < b => FirstAt(declared, got[a]) < FirstAt(declared, got[b])

\* C5: the targets returned are the names of the accepted rule lines, and the
\* list of each is the union of the dependencies declared for it on all those
\* lines, each name once, in the order of first appearance in the input.
C5_MergedDeps ==
    pc = "parsed" =>
        /\ DictKeys(targets) = AcceptedNames
        /\ \A n \in DOMAIN targets :
               IsFirstSeenUnion(targets[n].v, DeclaredUpTo(targets[n].k, Len(lines)))

\* a target declared on two accepted lines that repeat a name
C5_Witness ==
    /\ pc = "parsed"
    /\ \E n \in DOMAIN targets :
        /\ Cardinality({k \in DOMAIN lines :
                           AcceptedAt(k) /\ TargetName(lines[k]) = targets[n].k}) = 2
        /\ Len(targets[n].v) = 3
        /\ Len(DeclaredUpTo(targets[n].k, Len(lines))) = 5

\* '=' appears in the line before its first ':'
EqBeforeColon(line) ==
    \E p, q \in DOMAIN line :
        /\ line[p] = "=" /\ line[q] = ":" /\ p < q
        /\ \A r \in 1..(q - 1) : line[r] # ":"

\* C8: the name a line with '=' before its first ':' would define is no key
\* of the target mapping, unless a line without that shape defines it.
C8_AssignmentExcluded ==
    \A k \in DOMAIN lines :
        (/\ EqBeforeColon(lines[k])
         /\ TargetMatch(lines[k])
         /\ TargetName(lines[k]) \in DictKeys(targets))
            => \E m \in DOMAIN lines :
                   /\ ~EqBeforeColon(lines[m])
                   /\ TargetMatch(lines[m])
                   /\ TargetName(lines[m]) = TargetName(lines[k])

\* the parser has gone through an assignment-shaped line of the section and
\* has accepted another line
C8_Witness ==
    /\ pc = "parsed"
    /\ targets # <<>>
    /\ \E k \in DOMAIN lines :
        SectionOpenAt(k) /\ EqBeforeColon(lines[k]) /\ TargetMatch(lines[k])

\* the lines collected as the recipe of the accepted line k
RecipeIdx(k) ==
    {j \in (k + 1)..Len(lines) :
        /\ StartsWith(lines[j], <<"#">>)
        /\ \A m \in (k + 1)..j : StartsWith(lines[m], <<"#">>) \/ Strip(lines[m]) = <<>>}

RecipeText(j) == Strip(From(lines[j], 2))

\* where a reference to the build tool starts in s
ToolStarts(s) == {p \in DOMAIN s : ToolAt(s, p)}

\* a sub-target name: letters, digits, _, / and -, not a flag
IsSubTarget(w) == w # <<>> /\ Range(w) \subseteq NameChar /\ w[1] # "-"

\* the edge the claim expects of the invocation starting at p in s, if any
ExpectedCall(s, p) ==
    LET rest == From(s, p + Len(S_TOOL_PAREN))
        w == SplitWs(rest)
    IN  IF rest = <<>> \/ rest[1] \notin Whitespace THEN {}
        ELSE IF Len(w) >= 3 /\ w[1] = S_DASH_C /\ IsSubTarget(w[3])
             THEN {w[2] \o <<"/">> \o w[3]}
        ELSE IF Len(w) >= 1 /\ IsSubTarget(w[1]) THEN {w[1]}
        ELSE {}

\* the destinations recorded for target, in order
CallsOf(target) ==
    IF target \in DictKeys(make_calls) THEN DictGet(make_calls, target) ELSE <<>>

=============================================================================
